---- MODULE Spec2Model ----
(***************************************************************************)
(* Model of the disk / partition layout planner of installer-backend:      *)
(*   src/src/disk/mod.rs                       Disk and its mutation API,  *)
(*                                             validate_layout and diff    *)
(*   src/crates/disks/src/config/partitions/mod.rs   PartitionInfo         *)
(* A Disk is a record; its partition list is a sequence of PartitionInfo   *)
(* records.  Every method of Disk is an operator from a disk (and the      *)
(* call's arguments) to the disk after the call and the call's result,     *)
(* and an action applies it to the proposed copy.                          *)
(*   src/src/misc.rs                           watch_and_set and           *)
(*                                             resolve_to_physical         *)
(* part is one PartitionInfo on which its own methods are called, watcher  *)
(* the thread of watch_and_set with the file and the lock it works on,     *)
(* resolver one call of resolve_to_physical with the slaves directories.   *)
(***************************************************************************)
EXTENDS Integers, Sequences, FiniteSets, TLC

VARIABLES original, proposed, lastOp, result, plan, script, budget,
          part, watcher, resolver

vars == <<original, proposed, lastOp, result, plan, script, budget,
          part, watcher, resolver>>

\* What a planning session leaves alone.
misc == <<part, watcher, resolver>>

\* The value of a variable the specification at hand does not use.
Unused == [pc |-> "unused"]

(***************************************************************************)
(* Option<T>: None is the empty sequence, Some(x) the one-element one.     *)
(***************************************************************************)
None == <<>>

Some(x) == <<x>>

(***************************************************************************)
(* u8 bit operations used on PartitionInfo::bitflags.                      *)
(***************************************************************************)
RECURSIVE BitAnd(_, _)
BitAnd(a, b) ==
    IF a = 0 \/ b = 0 THEN 0
    ELSE (a % 2) * (b % 2) + 2 * BitAnd(a \div 2, b \div 2)

RECURSIVE BitOr(_, _)
BitOr(a, b) ==
    IF a = 0 THEN b
    ELSE IF b = 0 THEN a
    ELSE (IF a % 2 = 1 \/ b % 2 = 1 THEN 1 ELSE 0) + 2 * BitOr(a \div 2, b \div 2)

RECURSIVE BitXor(_, _)
BitXor(a, b) ==
    IF a = 0 THEN b
    ELSE IF b = 0 THEN a
    ELSE (IF a % 2 /= b % 2 THEN 1 ELSE 0) + 2 * BitXor(a \div 2, b \div 2)

SOURCE == 1

REMOVE == 2

FORMAT == 4

ACTIVE == 8

BUSY == 16

SWAPPED == 32

flag_is_enabled(p, flag) == BitAnd(p.bitflags, flag) /= 0

\* flag_disable flipping the flag.
flag_disable_Toggles(self, flag) ==
    [self EXCEPT !.bitflags = BitXor(self.bitflags, flag)]

\* flag_disable: bitflags &= 255 ^ flag
flag_disable(self, flag) ==
    [self EXCEPT !.bitflags = BitAnd(self.bitflags, BitXor(255, flag))]

\* PartitionInfo::remove: bitflags |= REMOVE
remove(p) == [p EXCEPT !.bitflags = BitOr(p.bitflags, REMOVE)]

\* format_with, on a record that carries the name.
format_with(self, fs) ==
    [self EXCEPT !.bitflags = BitOr(self.bitflags, FORMAT),
                 !.filesystem = Some(fs),
                 !.name = None]

format_and_keep_name(self, fs) ==
    [self EXCEPT !.bitflags = BitOr(self.bitflags, FORMAT),
                 !.filesystem = Some(fs)]

\* sectors_differ_from comparing the start of one with the end of the other.
sectors_differ_from_Crossed(self, other) ==
    self.start_sector /= other.end_sector \/ self.end_sector /= other.start_sector

sectors_differ_from(self, other) ==
    self.start_sector /= other.start_sector \/ self.end_sector /= other.end_sector

\* requires_changes without the comparison of the partition-table flags.
requires_changes_IgnoresFlags(self, other) ==
    \/ sectors_differ_from(self, other)
    \/ self.filesystem /= other.filesystem
    \/ flag_is_enabled(other, FORMAT)

requires_changes(self, other) ==
    \/ sectors_differ_from(self, other)
    \/ self.filesystem /= other.filesystem
    \/ self.flags /= other.flags
    \/ flag_is_enabled(other, FORMAT)

\* is_same_partition_as without the comparison of the numbers.
is_same_partition_as_FlagsOnly(self, other) ==
    /\ flag_is_enabled(self, SOURCE)
    /\ flag_is_enabled(other, SOURCE)

is_same_partition_as(self, other) ==
    /\ flag_is_enabled(self, SOURCE)
    /\ flag_is_enabled(other, SOURCE)
    /\ self.number = other.number

ShrinkValueTooHigh == [kind |-> "ShrinkValueTooHigh", id |-> 0]

\* The outcome of an unsigned subtraction below zero: a panic in a debug
\* build, a wrapped value in a release build.
Underflow == [kind |-> "Underflow", id |-> 0]

\* The length of the partition in sectors.
PartitionInfo_sectors(self) == self.end_sector - self.start_sector

\* shrink_to refusing to shrink by the whole length.
shrink_to_AtOrAbove(self, sectors) ==
    IF self.end_sector < self.start_sector
    THEN [part |-> self, res |-> Underflow]
    ELSE IF self.end_sector - self.start_sector <= sectors
    THEN [part |-> self, res |-> ShrinkValueTooHigh]
    ELSE [part |-> [self EXCEPT !.end_sector = self.end_sector - sectors],
          res  |-> [kind |-> "Ok", id |-> 0]]

\* shrink_to comparing the end sector, not the length, with the sectors.
shrink_to_IgnoresStart(self, sectors) ==
    IF self.end_sector < sectors
    THEN [part |-> self, res |-> ShrinkValueTooHigh]
    ELSE [part |-> [self EXCEPT !.end_sector = self.end_sector - sectors],
          res  |-> [kind |-> "Ok", id |-> 0]]

\* shrink_to: the result and the record afterwards.
shrink_to(self, sectors) ==
    IF self.end_sector < self.start_sector
    THEN [part |-> self, res |-> Underflow]
    ELSE IF self.end_sector - self.start_sector < sectors
    THEN [part |-> self, res |-> ShrinkValueTooHigh]
    ELSE [part |-> [self EXCEPT !.end_sector = self.end_sector - sectors],
          res  |-> [kind |-> "Ok", id |-> 0]]

(***************************************************************************)
(* PartitionBuilder.  new(start, end, fs) keeps an inclusive end sector,   *)
(* one below the exclusive end it is given; build() yields a record that   *)
(* is not a source partition and has no number (-1).                       *)
(***************************************************************************)
NoNumber == -1

PartitionBuilder_new(start, end, fs) ==
    [start_sector |-> start, end_sector |-> end - 1, filesystem |-> fs]

PartitionBuilder_build(builder) ==
    [bitflags     |-> 0,
     number       |-> NoNumber,
     start_sector |-> builder.start_sector,
     end_sector   |-> builder.end_sector,
     filesystem   |-> Some(builder.filesystem),
     flags        |-> <<>>]

(***************************************************************************)
(* Results of the Disk methods (DiskError).                                *)
(***************************************************************************)
Ok == [kind |-> "Ok", id |-> 0]

SectorOverlaps(id) == [kind |-> "SectorOverlaps", id |-> id]

PartitionNotFound(partition) == [kind |-> "PartitionNotFound", id |-> partition]

PartitionOOB == [kind |-> "PartitionOOB", id |-> 0]

ResizeTooSmall == [kind |-> "ResizeTooSmall", id |-> 0]

LayoutChanged == [kind |-> "LayoutChanged", id |-> 0]

\* The 1-based position of the first record of parts with the given number,
\* 0 when there is none (iter().find(|p| p.number == partition)).
Position(parts, partition) ==
    LET S == {i \in 1..Len(parts) : parts[i].number = partition}
    IN  IF S = {} THEN 0 ELSE CHOOSE i \in S : \A j \in S : i <= j

RemoveAt(parts, i) ==
    [j \in 1..(Len(parts) - 1) |-> IF j < i THEN parts[j] ELSE parts[j + 1]]

\* overlaps_region taking a range that only touches a partition as free.
overlaps_region_TouchAllowed(self, start, end) ==
    LET S == {i \in 1..Len(self.partitions) :
                 /\ ~flag_is_enabled(self.partitions[i], REMOVE)
                 /\ ~(\/ (start < self.partitions[i].start_sector
                           /\ end <= self.partitions[i].start_sector)
                      \/ (start >= self.partitions[i].end_sector
                           /\ end > self.partitions[i].end_sector))}
    IN  IF S = {} THEN None
        ELSE Some(self.partitions[CHOOSE i \in S : \A j \in S : i <= j].number)

\* overlaps_region without the filter on the partitions set to be removed.
overlaps_region_CountsRemoved(self, start, end) ==
    LET S == {i \in 1..Len(self.partitions) :
                 ~(\/ (start < self.partitions[i].start_sector
                        /\ end < self.partitions[i].start_sector)
                   \/ (start > self.partitions[i].end_sector
                        /\ end > self.partitions[i].end_sector))}
    IN  IF S = {} THEN None
        ELSE Some(self.partitions[CHOOSE i \in S : \A j \in S : i <= j].number)

overlaps_region(self, start, end) ==
    LET S == {i \in 1..Len(self.partitions) :
                 /\ ~flag_is_enabled(self.partitions[i], REMOVE)
                 /\ ~(\/ (start < self.partitions[i].start_sector
                           /\ end < self.partitions[i].start_sector)
                      \/ (start > self.partitions[i].end_sector
                           /\ end > self.partitions[i].end_sector))}
    IN  IF S = {} THEN None
        ELSE Some(self.partitions[CHOOSE i \in S : \A j \in S : i <= j].number)

\* get_partition_at with an exclusive end sector.
get_partition_at_EndExclusive(self, sector) ==
    LET S == {i \in 1..Len(self.partitions) :
                 /\ ~flag_is_enabled(self.partitions[i], REMOVE)
                 /\ sector >= self.partitions[i].start_sector
                 /\ sector < self.partitions[i].end_sector}
    IN  IF S = {} THEN None
        ELSE Some(self.partitions[CHOOSE i \in S : \A j \in S : i <= j].number)

get_partition_at(self, sector) ==
    LET S == {i \in 1..Len(self.partitions) :
                 /\ ~flag_is_enabled(self.partitions[i], REMOVE)
                 /\ sector >= self.partitions[i].start_sector
                 /\ sector <= self.partitions[i].end_sector}
    IN  IF S = {} THEN None
        ELSE Some(self.partitions[CHOOSE i \in S : \A j \in S : i <= j].number)

\* add_partition inserting the new record at the head of the list.
add_partition_Prepends(self, builder) ==
    LET ov == overlaps_region(self, builder.start_sector, builder.end_sector)
    IN  IF ov /= None
        THEN [disk |-> self, res |-> SectorOverlaps(ov[1])]
        ELSE IF self.size < builder.end_sector
        THEN [disk |-> self, res |-> PartitionOOB]
        ELSE [disk |-> [self EXCEPT !.partitions =
                           <<PartitionBuilder_build(builder)>> \o self.partitions],
              res  |-> Ok]

\* add_partition without the comparison of the end sector with the size.
add_partition_NoBoundsCheck(self, builder) ==
    LET ov == overlaps_region(self, builder.start_sector, builder.end_sector)
    IN  IF ov /= None
        THEN [disk |-> self, res |-> SectorOverlaps(ov[1])]
        ELSE [disk |-> [self EXCEPT !.partitions =
                           Append(self.partitions, PartitionBuilder_build(builder))],
              res  |-> Ok]

add_partition(self, builder) ==
    LET ov == overlaps_region(self, builder.start_sector, builder.end_sector)
    IN  IF ov /= None
        THEN [disk |-> self, res |-> SectorOverlaps(ov[1])]
        ELSE IF self.size < builder.end_sector
        THEN [disk |-> self, res |-> PartitionOOB]
        ELSE [disk |-> [self EXCEPT !.partitions =
                           Append(self.partitions, PartitionBuilder_build(builder))],
              res  |-> Ok]

\* remove_partition deleting the record it found, source or not.
remove_partition_AlwaysDeletes(self, partition) ==
    LET pos == Position(self.partitions, partition)
    IN  IF pos = 0
        THEN [disk |-> self, res |-> PartitionNotFound(partition)]
        ELSE LET p     == self.partitions[pos]
                 parts == IF flag_is_enabled(p, SOURCE)
                          THEN [self.partitions EXCEPT ![pos] = remove(p)]
                          ELSE self.partitions
             IN  [disk |-> [self EXCEPT !.partitions =
                               IF pos - 1 /= 0 THEN RemoveAt(parts, pos) ELSE parts],
                  res  |-> Ok]

\* remove_partition setting the removal flag before it looks at the source
\* flag.
remove_partition_FlagsAny(self, partition) ==
    LET pos == Position(self.partitions, partition)
    IN  IF pos = 0
        THEN [disk |-> self, res |-> PartitionNotFound(partition)]
        ELSE LET p     == self.partitions[pos]
                 id    == IF flag_is_enabled(p, SOURCE) THEN 0 ELSE pos - 1
                 parts == [self.partitions EXCEPT ![pos] = remove(p)]
             IN  [disk |-> [self EXCEPT !.partitions =
                               IF id /= 0 THEN RemoveAt(parts, id + 1) ELSE parts],
                  res  |-> Ok]

remove_partition(self, partition) ==
    LET pos == Position(self.partitions, partition)
    IN  IF pos = 0
        THEN [disk |-> self, res |-> PartitionNotFound(partition)]
        ELSE LET p     == self.partitions[pos]
                 src   == flag_is_enabled(p, SOURCE)
                 \* the closure's value: 0 for a source record, else the index
                 id    == IF src THEN 0 ELSE pos - 1
                 parts == IF src
                          THEN [self.partitions EXCEPT ![pos] = remove(p)]
                          ELSE self.partitions
             IN  [disk |-> [self EXCEPT !.partitions =
                               IF id /= 0 THEN RemoveAt(parts, id + 1) ELSE parts],
                  res  |-> Ok]

\* resize_partition taking the length to count the end sector in.
resize_partition_InclusiveEnd(self, partition, length) ==
    IF length <= ((10 * 1024 * 1024) \div self.sector_size)
    THEN [disk |-> self, res |-> ResizeTooSmall]
    ELSE LET pos == Position(self.partitions, partition)
         IN  IF pos = 0
             THEN [disk |-> self, res |-> PartitionNotFound(partition)]
             ELSE LET backup  == self.partitions[pos].end_sector
                      num     == self.partitions[pos].number
                      start   == self.partitions[pos].start_sector
                      end     == start + length - 1
                      applied == [self EXCEPT !.partitions[pos].end_sector = end]
                      ov      == overlaps_region(applied, start, end)
                  IN  IF ov /= None /\ ov[1] /= num
                      THEN [disk |-> [applied EXCEPT
                                        !.partitions[Position(applied.partitions, partition)]
                                            .end_sector = backup],
                            res  |-> SectorOverlaps(ov[1])]
                      ELSE [disk |-> applied, res |-> Ok]

\* resize_partition looking the partition up before it tests the length.
resize_partition_LookupFirst(self, partition, length) ==
    LET pos == Position(self.partitions, partition)
    IN  IF pos = 0
        THEN [disk |-> self, res |-> PartitionNotFound(partition)]
        ELSE IF length <= ((10 * 1024 * 1024) \div self.sector_size)
        THEN [disk |-> self, res |-> ResizeTooSmall]
        ELSE LET num     == self.partitions[pos].number
                 start   == self.partitions[pos].start_sector
                 end     == start + length
                 applied == [self EXCEPT !.partitions[pos].end_sector = end]
                 ov      == overlaps_region(applied, start, end)
             IN  IF ov /= None /\ ov[1] /= num
                 THEN [disk |-> self, res |-> SectorOverlaps(ov[1])]
                 ELSE [disk |-> applied, res |-> Ok]

\* resize_partition returning the overlap error without restoring the backup.
resize_partition_NoRollback(self, partition, length) ==
    IF length <= ((10 * 1024 * 1024) \div self.sector_size)
    THEN [disk |-> self, res |-> ResizeTooSmall]
    ELSE LET pos == Position(self.partitions, partition)
         IN  IF pos = 0
             THEN [disk |-> self, res |-> PartitionNotFound(partition)]
             ELSE LET num     == self.partitions[pos].number
                      start   == self.partitions[pos].start_sector
                      end     == start + length
                      applied == [self EXCEPT !.partitions[pos].end_sector = end]
                      ov      == overlaps_region(applied, start, end)
                  IN  IF ov /= None /\ ov[1] /= num
                      THEN [disk |-> applied, res |-> SectorOverlaps(ov[1])]
                      ELSE [disk |-> applied, res |-> Ok]

resize_partition(self, partition, length) ==
    IF length <= ((10 * 1024 * 1024) \div self.sector_size)
    THEN [disk |-> self, res |-> ResizeTooSmall]
    ELSE LET pos == Position(self.partitions, partition)
         IN  IF pos = 0
             THEN [disk |-> self, res |-> PartitionNotFound(partition)]
             ELSE LET backup  == self.partitions[pos].end_sector
                      num     == self.partitions[pos].number
                      start   == self.partitions[pos].start_sector
                      end     == start + length
                      applied == [self EXCEPT !.partitions[pos].end_sector = end]
                      ov      == overlaps_region(applied, start, end)
                  IN  IF ov /= None /\ ov[1] /= num
                      THEN [disk |-> [applied EXCEPT
                                        !.partitions[Position(applied.partitions, partition)]
                                            .end_sector = backup],
                            res  |-> SectorOverlaps(ov[1])]
                      ELSE [disk |-> applied, res |-> Ok]

\* move_partition adding the distance to the end sector in both directions.
move_partition_BackwardAdds(self, partition, start) ==
    LET pos == Position(self.partitions, partition)
    IN  IF pos = 0
        THEN [disk |-> self, res |-> PartitionNotFound(partition)]
        ELSE LET p == self.partitions[pos]
             IN  IF start = p.start_sector
                 THEN [disk |-> self, res |-> Ok]
                 ELSE LET end == IF start > p.start_sector
                                 THEN p.end_sector + (start - p.start_sector)
                                 ELSE p.end_sector + (p.start_sector - start)
                          ov  == overlaps_region(self, start, end)
                      IN  IF ov /= None
                          THEN [disk |-> self, res |-> SectorOverlaps(ov[1])]
                          ELSE [disk |-> [self EXCEPT
                                            !.partitions[pos].start_sector = start,
                                            !.partitions[pos].end_sector = end],
                                res  |-> Ok]

\* move_partition assigning the new range before the overlap check.
move_partition_ApplyFirst(self, partition, start) ==
    LET pos == Position(self.partitions, partition)
    IN  IF pos = 0
        THEN [disk |-> self, res |-> PartitionNotFound(partition)]
        ELSE LET p == self.partitions[pos]
             IN  IF start = p.start_sector
                 THEN [disk |-> self, res |-> Ok]
                 ELSE LET end   == IF start > p.start_sector
                                   THEN p.end_sector + (start - p.start_sector)
                                   ELSE p.end_sector - (p.start_sector - start)
                          ov    == overlaps_region(self, start, end)
                          moved == [self EXCEPT
                                      !.partitions[pos].start_sector = start,
                                      !.partitions[pos].end_sector = end]
                      IN  IF ov /= None
                          THEN [disk |-> moved, res |-> SectorOverlaps(ov[1])]
                          ELSE [disk |-> moved, res |-> Ok]

move_partition(self, partition, start) ==
    LET pos == Position(self.partitions, partition)
    IN  IF pos = 0
        THEN [disk |-> self, res |-> PartitionNotFound(partition)]
        ELSE LET p == self.partitions[pos]
             IN  IF start = p.start_sector
                 THEN [disk |-> self, res |-> Ok]
                 ELSE LET end == IF start > p.start_sector
                                 THEN p.end_sector + (start - p.start_sector)
                                 ELSE p.end_sector - (p.start_sector - start)
                          ov  == overlaps_region(self, start, end)
                      IN  IF ov /= None
                          THEN [disk |-> self, res |-> SectorOverlaps(ov[1])]
                          ELSE [disk |-> [self EXCEPT
                                            !.partitions[pos].start_sector = start,
                                            !.partitions[pos].end_sector = end],
                                res  |-> Ok]

\* format_partition assigning the format flag instead of adding it.
format_partition_OverwritesBitflags(self, partition, fs) ==
    LET pos == Position(self.partitions, partition)
    IN  IF pos = 0
        THEN [disk |-> self, res |-> PartitionNotFound(partition)]
        ELSE [disk |-> [self EXCEPT
                          !.partitions[pos].bitflags = FORMAT,
                          !.partitions[pos].filesystem = Some(fs)],
              res  |-> Ok]

\* format_partition emptying the partition-table flags of the record.
format_partition_ClearsFlags(self, partition, fs) ==
    LET pos == Position(self.partitions, partition)
    IN  IF pos = 0
        THEN [disk |-> self, res |-> PartitionNotFound(partition)]
        ELSE [disk |-> [self EXCEPT
                          !.partitions[pos].bitflags =
                              BitOr(self.partitions[pos].bitflags, FORMAT),
                          !.partitions[pos].filesystem = Some(fs),
                          !.partitions[pos].flags = <<>>],
              res  |-> Ok]

\* format_partition returning Ok when no record has the number.
format_partition_IgnoresMissing(self, partition, fs) ==
    LET pos == Position(self.partitions, partition)
    IN  IF pos = 0
        THEN [disk |-> self, res |-> Ok]
        ELSE [disk |-> [self EXCEPT
                          !.partitions[pos].bitflags =
                              BitOr(self.partitions[pos].bitflags, FORMAT),
                          !.partitions[pos].filesystem = Some(fs)],
              res  |-> Ok]

\* format_partition setting the filesystem but not the pending-format flag.
format_partition_NoFlag(self, partition, fs) ==
    LET pos == Position(self.partitions, partition)
    IN  IF pos = 0
        THEN [disk |-> self, res |-> PartitionNotFound(partition)]
        ELSE [disk |-> [self EXCEPT !.partitions[pos].filesystem = Some(fs)],
              res  |-> Ok]

format_partition(self, partition, fs) ==
    LET pos == Position(self.partitions, partition)
    IN  IF pos = 0
        THEN [disk |-> self, res |-> PartitionNotFound(partition)]
        ELSE [disk |-> [self EXCEPT
                          !.partitions[pos].bitflags =
                              BitOr(self.partitions[pos].bitflags, FORMAT),
                          !.partitions[pos].filesystem = Some(fs)],
              res  |-> Ok]

(***************************************************************************)
(* validate_layout: one iterator over new's partitions is shared by all    *)
(* the source partitions of self; each source partition consumes entries   *)
(* up to and including its counterpart.  j is the number of entries of     *)
(* new consumed so far.                                                    *)
(***************************************************************************)
RECURSIVE validate_layout_from(_, _, _, _)
validate_layout_from(self, new, i, j) ==
    IF i > Len(self.partitions) THEN Ok
    ELSE LET S == {k \in (j + 1)..Len(new.partitions) :
                      is_same_partition_as(self.partitions[i], new.partitions[k])}
         IN  IF S = {} THEN LayoutChanged
             ELSE validate_layout_from(self, new, i + 1,
                                       CHOOSE k \in S : \A m \in S : k <= m)

\* validate_layout without the `return Err(DiskError::LayoutChanged)`.
validate_layout_NoError(self, new) == Ok

validate_layout(self, new) == validate_layout_from(self, new, 1, 0)

(***************************************************************************)
(* The outcome of diff: a DiskOps plan, the LayoutChanged error, or one    *)
(* of the ways the function does not return: "Unreachable" (one of the     *)
(* unreachable!("layout validation") assertions), "UnwrapNone" (the        *)
(* filesystem of a created partition is absent) and "Hang" (the inner loop *)
(* keeps polling the exhausted iterator).                                  *)
(***************************************************************************)
DiskOps(removes, changes, creates) ==
    [kind              |-> "Ok",
     remove_partitions |-> removes,
     change_partitions |-> changes,
     create_partitions |-> creates]

NoDiskOps(kind) ==
    [kind              |-> kind,
     remove_partitions |-> <<>>,
     change_partitions |-> <<>>,
     create_partitions |-> <<>>]

\* PartitionChange carrying the filesystem whether or not a format is pending.
PartitionChange_AlwaysFormat(source, new) ==
    [num    |-> source.number,
     start  |-> new.start_sector,
     end    |-> new.end_sector,
     format |-> new.filesystem]

PartitionChange(source, new) ==
    [num    |-> source.number,
     start  |-> new.start_sector,
     end    |-> new.end_sector,
     format |-> IF flag_is_enabled(new, FORMAT) THEN new.filesystem ELSE None]

PartitionCreate(partition) ==
    [start_sector |-> partition.start_sector,
     end_sector   |-> partition.end_sector,
     file_system  |-> partition.filesystem[1]]

\* diff_create going over all the partitions of new instead of what the
\* iterator has left.
diff_create_FromStart(new, j, removes, changes) ==
    IF \E k \in 1..Len(new.partitions) : new.partitions[k].filesystem = None
    THEN NoDiskOps("UnwrapNone")
    ELSE DiskOps(removes, changes,
                 [k \in 1..Len(new.partitions) |-> PartitionCreate(new.partitions[k])])

\* The trailing loop of diff over what is left of the iterator.
diff_create(new, j, removes, changes) ==
    IF \E k \in (j + 1)..Len(new.partitions) : new.partitions[k].filesystem = None
    THEN NoDiskOps("UnwrapNone")
    ELSE DiskOps(removes, changes,
                 [k \in 1..(Len(new.partitions) - j) |->
                     PartitionCreate(new.partitions[j + k])])

\* diff_from putting each removal and each change in front of its list.
RECURSIVE diff_from_Prepends(_, _, _, _, _, _)
diff_from_Prepends(self, new, i, j, removes, changes) ==
    IF i > Len(self.partitions) THEN diff_create(new, j, removes, changes)
    ELSE IF j >= Len(new.partitions) THEN NoDiskOps("Hang")
    ELSE LET source == self.partitions[i]
             next   == new.partitions[j + 1]
         IN  IF flag_is_enabled(next, SOURCE)
             THEN IF source.number /= next.number THEN NoDiskOps("Unreachable")
                  ELSE IF flag_is_enabled(next, REMOVE)
                  THEN diff_from_Prepends(self, new, i + 1, j + 1,
                                 <<next.number>> \o removes, changes)
                  ELSE IF requires_changes(source, next)
                  THEN diff_from_Prepends(self, new, i + 1, j + 1, removes,
                                 <<PartitionChange(source, next)>> \o changes)
                  ELSE diff_from_Prepends(self, new, i + 1, j + 1, removes, changes)
             ELSE NoDiskOps("Unreachable")

\* diff_from without the `continue 'outer` that follows the push of a removal.
RECURSIVE diff_from_RemoveFallsThrough(_, _, _, _, _, _)
diff_from_RemoveFallsThrough(self, new, i, j, removes, changes) ==
    IF i > Len(self.partitions) THEN diff_create(new, j, removes, changes)
    ELSE IF j >= Len(new.partitions) THEN NoDiskOps("Hang")
    ELSE LET source == self.partitions[i]
             next   == new.partitions[j + 1]
             rm     == IF flag_is_enabled(next, REMOVE)
                       THEN Append(removes, next.number) ELSE removes
         IN  IF flag_is_enabled(next, SOURCE)
             THEN IF source.number /= next.number THEN NoDiskOps("Unreachable")
                  ELSE IF requires_changes(source, next)
                  THEN diff_from_RemoveFallsThrough(self, new, i + 1, j + 1, rm,
                                 Append(changes, PartitionChange(source, next)))
                  ELSE diff_from_RemoveFallsThrough(self, new, i + 1, j + 1, rm, changes)
             ELSE NoDiskOps("Unreachable")

\* The 'outer loop of diff at source partition i, with j entries of new
\* consumed.
RECURSIVE diff_from(_, _, _, _, _, _)
diff_from(self, new, i, j, removes, changes) ==
    IF i > Len(self.partitions) THEN diff_create(new, j, removes, changes)
    ELSE IF j >= Len(new.partitions) THEN NoDiskOps("Hang")
    ELSE LET source == self.partitions[i]
             next   == new.partitions[j + 1]
         IN  IF flag_is_enabled(next, SOURCE)
             THEN IF source.number /= next.number THEN NoDiskOps("Unreachable")
                  ELSE IF flag_is_enabled(next, REMOVE)
                  THEN diff_from(self, new, i + 1, j + 1,
                                 Append(removes, next.number), changes)
                  ELSE IF requires_changes(source, next)
                  THEN diff_from(self, new, i + 1, j + 1, removes,
                                 Append(changes, PartitionChange(source, next)))
                  ELSE diff_from(self, new, i + 1, j + 1, removes, changes)
             ELSE NoDiskOps("Unreachable")

diff(self, new) ==
    IF validate_layout(self, new) /= Ok THEN NoDiskOps("LayoutChanged")
    ELSE diff_from(self, new, 1, 0, <<>>, <<>>)

(***************************************************************************)
(* Disks.  The partition list of a probed disk holds source records only,  *)
(* with distinct numbers, none pending removal or format.                  *)
(***************************************************************************)
SectorSize == 512

\* The resize threshold of resize_partition, in sectors.
MinSectors(sector_size) == (10 * 1024 * 1024) \div sector_size

\* The shortest length resize_partition accepts; the unit of the small disks.
Cell == MinSectors(SectorSize) + 1

\* Size of the small disks, in cells.
DiskCells == 6

\* How many mutation calls a planning session on a small disk makes.
MaxCalls == 4

PartitionInfo(bitflags, number, start, end, fs, flags) ==
    [bitflags     |-> bitflags,
     number       |-> number,
     start_sector |-> start,
     end_sector   |-> end,
     filesystem   |-> fs,
     flags        |-> flags]

Disk(size, partitions) ==
    [size        |-> size,
     sector_size |-> SectorSize,
     table_type  |-> Some("Gpt"),
     partitions  |-> partitions]

EmptyDisk == Disk(DiskCells * Cell, <<>>)

TwoPartDisk ==
    Disk(DiskCells * Cell,
         << PartitionInfo(BitOr(SOURCE, ACTIVE), 1, 0, 2 * Cell - 1,
                          Some("Fat16"), <<"PED_PARTITION_ESP">>),
            PartitionInfo(SOURCE, 2, 2 * Cell, 4 * Cell - 1, Some("Ext4"), <<>>) >>)

\* tests::get_default
DefaultDisk ==
    Disk(1953525168,
         << PartitionInfo(BitOr(SOURCE, BitOr(ACTIVE, BUSY)), 1,
                          2048, 1026047, Some("Fat16"), <<>>),
            PartitionInfo(BitOr(SOURCE, BitOr(ACTIVE, BUSY)), 2,
                          1026048, 420456447, Some("Btrfs"), <<>>),
            PartitionInfo(SOURCE, 3,
                          420456448, 1936738303, Some("Ext4"), <<>>),
            PartitionInfo(BitOr(SOURCE, ACTIVE), 4,
                          1936738304, 1953523711, Some("Swap"), <<>>) >>)

GIB20 == 41943040

Originals == {EmptyDisk, TwoPartDisk}

(***************************************************************************)
(* Calls.  lastOp is the last call made on the proposed copy and result    *)
(* what it returned; plan is the outcome of diff when the last call was    *)
(* diff(original, proposed).                                               *)
(***************************************************************************)
Op(op, partition, start, end, length, fs) ==
    [op |-> op, partition |-> partition, start |-> start, end |-> end,
     length |-> length, fs |-> fs]

NewOp == Op("new", 0, 0, 0, 0, "")

AddOp(start, end, fs) == Op("add_partition", 0, start, end, 0, fs)

RemoveOp(partition) == Op("remove_partition", partition, 0, 0, 0, "")

ResizeOp(partition, length) == Op("resize_partition", partition, 0, 0, length, "")

MoveOp(partition, start) == Op("move_partition", partition, start, 0, 0, "")

FormatOp(partition, fs) == Op("format_partition", partition, 0, 0, 0, fs)

DiffOp == Op("diff", 0, 0, 0, 0, "")

\* get_partition_mut(partition), then shrink_to(sectors) on the record.
ShrinkOp(partition, sectors) == Op("shrink_to", partition, 0, 0, sectors, "")

GetPartitionAtOp(sector) == Op("get_partition_at", 0, sector, 0, 0, "")

ValidateOp == Op("validate_layout", 0, 0, 0, 0, "")

NoPlan == NoDiskOps("None")

\* tests::layout_diff: the calls made on the clone of the default disk.
Script ==
    << RemoveOp(1),
       RemoveOp(2),
       FormatOp(3, "Xfs"),
       ResizeOp(3, GIB20),
       RemoveOp(4),
       AddOp(2048, 1024000 + 2048, "Fat16"),
       AddOp(1026048, GIB20 + 1026048, "Ext4") >>

OffScript == -1

\* script counts the calls made so far when they are the first calls of
\* Script, in order, and nothing else was called; budget is the number of
\* mutation calls the session may still make.
Call(op, r) ==
    /\ budget > 0
    /\ budget' = budget - 1
    /\ proposed' = r.disk
    /\ result' = r.res
    /\ lastOp' = op
    /\ plan' = NoPlan
    /\ script' = IF /\ script /= OffScript
                    /\ script < Len(Script)
                    /\ op = Script[script + 1]
                 THEN script + 1
                 ELSE OffScript
    /\ UNCHANGED <<original, misc>>

Add(start, end, fs) ==
    Call(AddOp(start, end, fs),
         add_partition(proposed, PartitionBuilder_new(start, end, fs)))

Remove(partition) ==
    Call(RemoveOp(partition), remove_partition(proposed, partition))

Resize(partition, length) ==
    Call(ResizeOp(partition, length), resize_partition(proposed, partition, length))

Move(partition, start) ==
    Call(MoveOp(partition, start), move_partition(proposed, partition, start))

Format(partition, fs) ==
    Call(FormatOp(partition, fs), format_partition(proposed, partition, fs))

\* shrink_to on the record get_partition_mut finds in the proposed disk.
Shrink(partition, sectors) ==
    LET pos == Position(proposed.partitions, partition)
    IN  /\ pos /= 0
        /\ LET r == shrink_to(proposed.partitions[pos], sectors)
           IN  Call(ShrinkOp(partition, sectors),
                    [disk |-> [proposed EXCEPT !.partitions[pos] = r.part],
                     res  |-> r.res])

\* get_partition_at on the proposed disk; result holds the Option.
GetPartitionAt(sector) ==
    /\ result' = LET at == get_partition_at(proposed, sector)
                 IN  IF at = None THEN [kind |-> "None", id |-> 0]
                     ELSE [kind |-> "Some", id |-> at[1]]
    /\ lastOp' = GetPartitionAtOp(sector)
    /\ plan' = NoPlan
    /\ UNCHANGED <<original, proposed, script, budget, misc>>

Diff ==
    /\ plan' = diff(original, proposed)
    /\ result' = IF plan'.kind = "Ok" THEN Ok ELSE [kind |-> plan'.kind, id |-> 0]
    /\ lastOp' = DiffOp
    /\ UNCHANGED <<original, proposed, script, budget, misc>>

ValidateLayout ==
    /\ result' = validate_layout(original, proposed)
    /\ lastOp' = ValidateOp
    /\ plan' = NoPlan
    /\ UNCHANGED <<original, proposed, script, budget, misc>>

(***************************************************************************)
(* Spec: a planning session on a small disk.  The proposed copy starts as  *)
(* a clone of the original and is changed through the mutation API only.   *)
(***************************************************************************)
Numbers == {1, 2, NoNumber}

\* 4 * Cell - 1 is the end sector of the second partition of TwoPartDisk.
AddStarts == {0, 4 * Cell - 1, 4 * Cell, 5 * Cell}

AddLengths == {Cell, 2 * Cell, DiskCells * Cell}

ResizeLengths ==
    {MinSectors(SectorSize) - 1, MinSectors(SectorSize), Cell, 2 * Cell, 3 * Cell}

MoveStarts == {0, 3 * Cell, 4 * Cell}

FileSystems == {"Xfs"}

ShrinkSectors == {Cell, 3 * Cell}

InitOf(disks, calls) ==
    /\ original \in disks
    /\ budget = calls
    /\ proposed = original
    /\ lastOp = NewOp
    /\ result = Ok
    /\ plan = NoPlan
    /\ script = 0
    /\ part = Unused
    /\ watcher = Unused
    /\ resolver = Unused

Init == InitOf(Originals, MaxCalls)

AddPartition ==
    \E start \in AddStarts, length \in AddLengths, fs \in FileSystems :
        Add(start, start + length, fs)

RemovePartition == \E partition \in Numbers : Remove(partition)

ResizePartition ==
    \E partition \in Numbers, length \in ResizeLengths : Resize(partition, length)

MovePartition ==
    \E partition \in Numbers, start \in MoveStarts : Move(partition, start)

FormatPartition ==
    \E partition \in Numbers, fs \in FileSystems : Format(partition, fs)

ShrinkPartition ==
    \E partition \in Numbers, sectors \in ShrinkSectors : Shrink(partition, sectors)

Next ==
    \/ AddPartition
    \/ RemovePartition
    \/ ResizePartition
    \/ MovePartition
    \/ FormatPartition
    \/ ShrinkPartition
    \/ Diff

Spec == Init /\ [][Next]_vars

(***************************************************************************)
(* SpecRef: a planning session on the default disk of the tests, making    *)
(* the calls of tests::layout_diff in any order.                           *)
(***************************************************************************)
ScriptCalls == {Script[i] : i \in 1..Len(Script)}

InitRef == InitOf({DefaultDisk}, Len(Script))

RefAddPartition ==
    \E c \in ScriptCalls : c.op = "add_partition" /\ Add(c.start, c.end, c.fs)

RefRemovePartition ==
    \E c \in ScriptCalls : c.op = "remove_partition" /\ Remove(c.partition)

RefResizePartition ==
    \E c \in ScriptCalls : c.op = "resize_partition" /\ Resize(c.partition, c.length)

RefFormatPartition ==
    \E c \in ScriptCalls : c.op = "format_partition" /\ Format(c.partition, c.fs)

NextRef ==
    \/ RefAddPartition
    \/ RefRemovePartition
    \/ RefResizePartition
    \/ RefFormatPartition
    \/ Diff

SpecRef == InitRef /\ [][NextRef]_vars

(***************************************************************************)
(* SpecLayout: validate_layout and diff as functions of two disks.  The    *)
(* original is a probed disk; the proposed disk is any list of at most     *)
(* MaxParts records, since Disk::partitions is a public field (as          *)
(* tests::layout_validity uses it): source records as probed or flagged,   *)
(* resized or formatted, and records built by PartitionBuilder.            *)
(***************************************************************************)
MaxParts == 3

SourcePool ==
    { PartitionInfo(BitOr(SOURCE, ACTIVE), 1, 0, 2 * Cell - 1,
                    Some("Fat16"), <<"PED_PARTITION_ESP">>),
      PartitionInfo(SOURCE, 2, 2 * Cell, 4 * Cell - 1, Some("Ext4"), <<>>),
      PartitionInfo(SOURCE, 3, 4 * Cell, 5 * Cell - 1, None, <<>>) }

ProposedPool ==
    SourcePool
    \cup {remove(p) : p \in SourcePool}
    \cup {[p EXCEPT !.end_sector = p.start_sector + Cell,
                    !.bitflags = BitOr(p.bitflags, FORMAT),
                    !.filesystem = Some("Xfs")] : p \in {q \in SourcePool : q.number = 1}}
    \cup {[p EXCEPT !.bitflags = BitOr(p.bitflags, FORMAT)] :
              p \in {q \in SourcePool : q.number = 2}}
    \cup {[p EXCEPT !.start_sector = p.start_sector + Cell,
                    !.end_sector = p.end_sector + Cell] :
              p \in {q \in SourcePool : q.number \in {2, 3}}}
    \cup {[p EXCEPT !.flags = <<>>] : p \in {q \in SourcePool : q.number = 1}}
    \cup {[p EXCEPT !.filesystem = Some("Swap")] :
              p \in {q \in SourcePool : q.number = 3}}
    \cup {PartitionBuilder_build(PartitionBuilder_new(5 * Cell, 6 * Cell, "Xfs"))}

SeqsUpTo(pool, n) == UNION {[1..m -> pool] : m \in 0..n}

\* No two source records of the list carry the same number.
DistinctSources(parts) ==
    \A i, j \in 1..Len(parts) :
        (/\ i /= j
         /\ flag_is_enabled(parts[i], SOURCE)
         /\ flag_is_enabled(parts[j], SOURCE)) => parts[i].number /= parts[j].number

InitLayout ==
    /\ original \in {Disk(DiskCells * Cell, parts) :
                        parts \in {q \in SeqsUpTo(SourcePool, MaxParts) : DistinctSources(q)}}
    /\ proposed \in {Disk(DiskCells * Cell, parts) :
                        parts \in {q \in SeqsUpTo(ProposedPool, MaxParts) : DistinctSources(q)}}
    /\ lastOp = NewOp
    /\ result = Ok
    /\ plan = NoPlan
    /\ script = OffScript
    /\ budget = 0
    /\ part = Unused
    /\ watcher = Unused
    /\ resolver = Unused

Sectors == {0, 2 * Cell - 1, 4 * Cell, 5 * Cell - 1, 6 * Cell}

GetPartitionAtSector == \E sector \in Sectors : GetPartitionAt(sector)

NextLayout ==
    \/ ValidateLayout
    \/ Diff
    \/ GetPartitionAtSector

SpecLayout == InitLayout /\ [][NextLayout]_vars

(***************************************************************************)
(* Properties.                                                             *)
(***************************************************************************)
NotRemoved(p) == ~flag_is_enabled(p, REMOVE)

\* [s1,e1] and [s2,e2] neither intersect nor touch.
Apart(s1, e1, s2, e2) == e1 < s2 \/ s1 > e2

IsResize == lastOp.op = "resize_partition"

\* C1: after any sequence of mutation calls on a disk whose non-removed
\* partitions were pairwise apart, every pair of distinct non-removed
\* partitions [s1,e1], [s2,e2] satisfies e1 < s2 or s1 > e2.
C1_NoOverlap ==
    \A i, j \in 1..Len(proposed.partitions) :
        (/\ i /= j
         /\ NotRemoved(proposed.partitions[i])
         /\ NotRemoved(proposed.partitions[j]))
        => Apart(proposed.partitions[i].start_sector, proposed.partitions[i].end_sector,
                 proposed.partitions[j].start_sector, proposed.partitions[j].end_sector)

\* C2: resize_partition(number, new_length) with an accepted length on an
\* existing record fails with SectorOverlaps(other), other /= number,
\* whenever [start, start + new_length] intersects or touches the range of
\* another non-removed record, wherever that record sits in the list.
C2_ResizeChecksEveryOther ==
    (/\ IsResize
     /\ lastOp.length > MinSectors(proposed.sector_size)
     /\ Position(proposed.partitions, lastOp.partition) /= 0)
    => LET pos   == Position(proposed.partitions, lastOp.partition)
           start == proposed.partitions[pos].start_sector
           end   == start + lastOp.length
       IN  (\E k \in 1..Len(proposed.partitions) :
               /\ k /= pos
               /\ NotRemoved(proposed.partitions[k])
               /\ ~Apart(start, end, proposed.partitions[k].start_sector,
                         proposed.partitions[k].end_sector))
           => (result.kind = "SectorOverlaps" /\ result.id /= lastOp.partition)

\* C3: resize_partition is all-or-nothing: a call that returns an error
\* (ResizeTooSmall, PartitionNotFound, SectorOverlaps) leaves the disk as it
\* was; a call that returns Ok sets the target's end_sector to
\* start_sector + length and changes nothing else.
C3_ResizeAllOrNothing ==
    [][lastOp'.op = "resize_partition" =>
        IF result' /= Ok
        THEN /\ result'.kind \in {"ResizeTooSmall", "PartitionNotFound", "SectorOverlaps"}
             /\ proposed' = proposed
        ELSE LET pos == Position(proposed.partitions, lastOp'.partition)
             IN  /\ pos /= 0
                 /\ proposed' = [proposed EXCEPT !.partitions[pos].end_sector =
                                    proposed.partitions[pos].start_sector + lastOp'.length]
    ]_vars

\* A resize was refused because of another partition (the rollback ran).
C3_Witness == IsResize /\ result.kind = "SectorOverlaps"

\* C4: add_partition, remove_partition, move_partition and format_partition
\* leave the disk exactly as it was whenever they return an error.
C4_ErrorLeavesDisk ==
    [][(/\ lastOp'.op \in {"add_partition", "remove_partition",
                           "move_partition", "format_partition"}
        /\ result' /= Ok)
       => proposed' = proposed]_vars

\* A move was refused because of an overlap.
C4_Witness == lastOp.op = "move_partition" /\ result.kind = "SectorOverlaps"

\* The regions a plan leaves in use: those of its change and create
\* descriptors and of the source partitions it neither removes nor changes.
PlanRegions ==
    {<<"change", i, plan.change_partitions[i].start, plan.change_partitions[i].end>> :
        i \in 1..Len(plan.change_partitions)}
    \cup
    {<<"create", i, plan.create_partitions[i].start_sector,
       plan.create_partitions[i].end_sector>> : i \in 1..Len(plan.create_partitions)}
    \cup
    {<<"keep", i, original.partitions[i].start_sector, original.partitions[i].end_sector>> :
        i \in {k \in 1..Len(original.partitions) :
                  /\ \A r \in 1..Len(plan.remove_partitions) :
                        plan.remove_partitions[r] /= original.partitions[k].number
                  /\ \A c \in 1..Len(plan.change_partitions) :
                        plan.change_partitions[c].num /= original.partitions[k].number}}

\* C5: the plan diff returns for a proposed disk obtained through the
\* mutation API never targets overlapping regions.
C5_PlanRegionsDisjoint ==
    (lastOp = DiffOp /\ plan.kind = "Ok")
    => \A a, b \in PlanRegions : a /= b => (a[4] < b[3] \/ b[4] < a[3])

EmptyPlan == DiskOps(<<>>, <<>>, <<>>)

RECURSIVE SourceNumbers(_)
SourceNumbers(parts) ==
    IF parts = <<>> THEN <<>>
    ELSE IF flag_is_enabled(Head(parts), SOURCE)
    THEN <<Head(parts).number>> \o SourceNumbers(Tail(parts))
    ELSE SourceNumbers(Tail(parts))

\* Some source partition of original has no source record with its number
\* in proposed.
SourceMissing ==
    \E i \in 1..Len(original.partitions) :
        /\ flag_is_enabled(original.partitions[i], SOURCE)
        /\ \A k \in 1..Len(proposed.partitions) :
              ~(/\ flag_is_enabled(proposed.partitions[k], SOURCE)
                /\ proposed.partitions[k].number = original.partitions[i].number)

\* C7: validate_layout, and diff through it, fail with LayoutChanged
\* whenever a source partition of original has no source-flagged record of
\* the same number in proposed; when proposed holds the source records of
\* original in their order, records flagged for removal and additional
\* non-source records do not make it LayoutChanged.
C7_LayoutChanged ==
    lastOp \in {DiffOp, ValidateOp} =>
        /\ SourceMissing => result = LayoutChanged
        /\ SourceNumbers(proposed.partitions) = SourceNumbers(original.partitions)
              => result /= LayoutChanged

\* diff refused a proposed disk that lacks one source partition while another
\* one is there, flagged for removal.
C7_Witness ==
    /\ lastOp = DiffOp
    /\ SourceMissing
    /\ result = LayoutChanged
    /\ \E k \in 1..Len(proposed.partitions) :
          /\ flag_is_enabled(proposed.partitions[k], SOURCE)
          /\ flag_is_enabled(proposed.partitions[k], REMOVE)

Occurrences(seq, x) == Cardinality({i \in 1..Len(seq) : seq[i] = x})

\* The source records of proposed on which remove_partition succeeded.
RemovedSources ==
    {k \in 1..Len(proposed.partitions) :
        /\ flag_is_enabled(proposed.partitions[k], SOURCE)
        /\ flag_is_enabled(proposed.partitions[k], REMOVE)}

\* C8: once remove_partition(n) succeeded on source partition n, whatever
\* else was called before or after it, diff returns a plan that holds n
\* exactly once in its remove list and no change descriptor with num = n.
C8_RemovedOnceNeverChanged ==
    lastOp = DiffOp =>
        \A k \in RemovedSources :
            /\ plan.kind = "Ok"
            /\ Occurrences(plan.remove_partitions, proposed.partitions[k].number) = 1
            /\ \A c \in 1..Len(plan.change_partitions) :
                  plan.change_partitions[c].num /= proposed.partitions[k].number

\* diff ran on a disk with a removed source partition that was also resized,
\* moved or formatted.
C8_Witness ==
    /\ lastOp = DiffOp
    /\ \E k \in RemovedSources :
          \E i \in 1..Len(original.partitions) :
              /\ original.partitions[i].number = proposed.partitions[k].number
              /\ requires_changes(original.partitions[i], proposed.partitions[k])

\* tests::layout_diff: the plan it expects.
ExpectedPlan ==
    DiskOps(<<1, 2, 4>>,
            << [num |-> 3, start |-> 420456448, end |-> 420456448 + GIB20,
                format |-> Some("Xfs")] >>,
            << [start_sector |-> 2048, end_sector |-> 1024000 + 2047,
                file_system |-> "Fat16"],
               [start_sector |-> 1026048, end_sector |-> GIB20 + 1026047,
                file_system |-> "Ext4"] >>)

\* C9: on the default disk every call of the sequence remove 1, remove 2,
\* format 3 as Xfs, resize 3 to GIB20, remove 4, add Fat16 (2048,
\* 2048 + 1024000), add Ext4 (1026048, 1026048 + GIB20) succeeds, and diff
\* after the whole sequence yields the expected plan.
C9_ReferenceScenario ==
    /\ (script >= 1 /\ lastOp = Script[script]) => result = Ok
    /\ (script = Len(Script) /\ lastOp = DiffOp) => plan = ExpectedPlan

\* diff ran after the whole sequence.
C9_Witness == script = Len(Script) /\ lastOp = DiffOp /\ plan.kind = "Ok"

\* C10: remove_partition(n) on a record that is not source-flagged deletes
\* that record from the list, at whatever index it is.
C10_RemoveDeletesNewRecord ==
    [][(/\ lastOp'.op = "remove_partition"
        /\ Position(proposed.partitions, lastOp'.partition) /= 0
        /\ ~flag_is_enabled(
               proposed.partitions[Position(proposed.partitions, lastOp'.partition)],
               SOURCE))
       => /\ result' = Ok
          /\ proposed'.partitions =
                RemoveAt(proposed.partitions,
                         Position(proposed.partitions, lastOp'.partition))]_vars

\* The position in the list before the call of the record the call that
\* leads to the next state names.
TargetPos == Position(proposed.partitions, lastOp'.partition)

\* C11: remove_partition(n) on a source-flagged record returns Ok, keeps the
\* record where it is with its geometry and filesystem, sets its
\* pending-remove flag and changes nothing else; on a record already
\* flagged it changes nothing.
C11_RemoveFlagsSource ==
    [][(/\ lastOp'.op = "remove_partition"
        /\ TargetPos /= 0
        /\ flag_is_enabled(proposed.partitions[TargetPos], SOURCE))
       => /\ result' = Ok
          /\ Len(proposed'.partitions) = Len(proposed.partitions)
          /\ flag_is_enabled(proposed'.partitions[TargetPos], REMOVE)
          /\ proposed' = [proposed EXCEPT !.partitions[TargetPos].bitflags =
                             BitOr(proposed.partitions[TargetPos].bitflags, REMOVE)]
          /\ flag_is_enabled(proposed.partitions[TargetPos], REMOVE)
                => proposed' = proposed]_vars

\* remove_partition returned Ok on a source record that is not the first of
\* the list; the record is there, flagged.
C11_Witness ==
    /\ lastOp.op = "remove_partition"
    /\ result = Ok
    /\ Position(proposed.partitions, lastOp.partition) > 1
    /\ flag_is_enabled(proposed.partitions[Position(proposed.partitions, lastOp.partition)],
                       SOURCE)
    /\ flag_is_enabled(proposed.partitions[Position(proposed.partitions, lastOp.partition)],
                       REMOVE)

\* The candidate of the add_partition call that leads to the next state.
Candidate(op) == PartitionBuilder_new(op.start, op.end, op.fs)

Intersects(s1, e1, s2, e2) == s1 <= e2 /\ s2 <= e1

\* The positions of the non-removed records of the disk that [start, end]
\* intersects.
Intersected(disk, start, end) ==
    {k \in 1..Len(disk.partitions) :
        /\ NotRemoved(disk.partitions[k])
        /\ Intersects(start, end, disk.partitions[k].start_sector,
                      disk.partitions[k].end_sector)}

\* C12 as stated: add_partition with a candidate whose end sector exceeds
\* the size of the disk fails with PartitionOOB in every state of the disk,
\* also when the candidate intersects a non-removed partition.
C12_AlwaysOOB ==
    (lastOp.op = "add_partition" /\ Candidate(lastOp).end_sector > proposed.size)
    => result = PartitionOOB

\* C12 as amended: add_partition with a candidate whose end sector exceeds
\* the size of the disk fails in every state of the disk and leaves it
\* unchanged: with PartitionOOB when the candidate intersects no non-removed
\* partition, with SectorOverlaps when it does.
C12_OOBUnlessOverlap ==
    [][(lastOp'.op = "add_partition" /\ Candidate(lastOp').end_sector > proposed.size)
       => /\ proposed' = proposed
          /\ result' = IF Intersected(proposed, Candidate(lastOp').start_sector,
                                      Candidate(lastOp').end_sector) = {}
                       THEN PartitionOOB
                       ELSE SectorOverlaps(result'.id)]_vars

\* add_partition refused a candidate that ends beyond the disk and intersects
\* nothing.
C12_Witness ==
    /\ lastOp.op = "add_partition"
    /\ Candidate(lastOp).end_sector > proposed.size
    /\ result = PartitionOOB
    /\ proposed.partitions /= <<>>

\* The least element of a non-empty set of positions.
First(S) == CHOOSE i \in S : \A j \in S : i <= j

\* The call that leads to the next state is add_partition and its candidate
\* starts on the end sector of the non-removed record at position k.
AddAtEndOf(k) ==
    /\ lastOp'.op = "add_partition"
    /\ NotRemoved(proposed.partitions[k])
    /\ Candidate(lastOp').start_sector = proposed.partitions[k].end_sector

\* The call that leads to the next state is add_partition and its candidate
\* starts one sector after the end of the non-removed record at position k,
\* intersects nothing and fits on the disk.
AddAfterEndOf(k) ==
    /\ lastOp'.op = "add_partition"
    /\ NotRemoved(proposed.partitions[k])
    /\ Candidate(lastOp').start_sector = proposed.partitions[k].end_sector + 1
    /\ Candidate(lastOp').end_sector <= proposed.size
    /\ Intersected(proposed, Candidate(lastOp').start_sector,
                   Candidate(lastOp').end_sector) = {}

AddAppended ==
    /\ result' = Ok
    /\ proposed' = [proposed EXCEPT !.partitions =
                       Append(proposed.partitions,
                              PartitionBuilder_build(Candidate(lastOp')))]

\* C13 as stated: a candidate whose start_sector is the end sector e of a
\* non-removed partition fails with SectorOverlaps carrying that partition's
\* number; a candidate starting at e + 1 that intersects nothing and fits on
\* the disk is appended.
C13_TouchReportsThatPartition ==
    [][\A k \in 1..Len(proposed.partitions) :
          /\ AddAtEndOf(k) => result' = SectorOverlaps(proposed.partitions[k].number)
          /\ AddAfterEndOf(k) => AddAppended]_vars

\* C13 as amended: a candidate whose start_sector is the end sector e of a
\* non-removed partition fails with SectorOverlaps carrying the number of
\* the first non-removed record of the list that the candidate intersects
\* (that partition's, unless a record listed before it is intersected too),
\* and the disk is unchanged; a candidate starting at e + 1 that intersects
\* nothing and fits on the disk is appended.
C13_TouchIsOverlap ==
    [][\A k \in 1..Len(proposed.partitions) :
          /\ AddAtEndOf(k) =>
                /\ k \in Intersected(proposed, Candidate(lastOp').start_sector,
                                     Candidate(lastOp').end_sector)
                /\ result' = SectorOverlaps(
                       proposed.partitions[
                           First(Intersected(proposed, Candidate(lastOp').start_sector,
                                             Candidate(lastOp').end_sector))].number)
                /\ proposed' = proposed
          /\ AddAfterEndOf(k) => AddAppended]_vars

\* add_partition refused a candidate that starts on the end sector of a
\* partition and intersects no other.
C13_Witness ==
    /\ lastOp.op = "add_partition"
    /\ result.kind = "SectorOverlaps"
    /\ \E k \in 1..Len(proposed.partitions) :
          /\ Candidate(lastOp).start_sector = proposed.partitions[k].end_sector
          /\ Intersected(proposed, Candidate(lastOp).start_sector,
                         Candidate(lastOp).end_sector) = {k}
          /\ result.id = proposed.partitions[k].number

\* The list without the records set to be removed, the one at position keep
\* excepted.
RECURSIVE StripFrom(_, _, _)
StripFrom(parts, keep, i) ==
    IF i > Len(parts) THEN <<>>
    ELSE IF NotRemoved(parts[i]) \/ i = keep
    THEN <<parts[i]>> \o StripFrom(parts, keep, i + 1)
    ELSE StripFrom(parts, keep, i + 1)

\* The disk as it would be were its pending-remove records absent (the
\* record at position keep, the target of a call, is left in).
Stripped(disk, keep) == [disk EXCEPT !.partitions = StripFrom(disk.partitions, keep, 1)]

\* C14: add_partition, resize_partition and move_partition return what they
\* would return if every other record flagged for removal were absent from
\* the list.
C14_RemovedNeverBlock ==
    [][/\ lastOp'.op = "add_partition" =>
            result' = add_partition(Stripped(proposed, 0), Candidate(lastOp')).res
       /\ lastOp'.op = "resize_partition" =>
            result' = resize_partition(Stripped(proposed, TargetPos),
                                       lastOp'.partition, lastOp'.length).res
       /\ lastOp'.op = "move_partition" =>
            result' = move_partition(Stripped(proposed, TargetPos),
                                     lastOp'.partition, lastOp'.start).res]_vars

\* add_partition appended a record inside the region of a source partition
\* that is flagged for removal.
C14_Witness ==
    /\ lastOp.op = "add_partition"
    /\ result = Ok
    /\ \E k \in 1..Len(proposed.partitions) :
          /\ flag_is_enabled(proposed.partitions[k], SOURCE)
          /\ flag_is_enabled(proposed.partitions[k], REMOVE)
          /\ Intersects(proposed.partitions[k].start_sector,
                        proposed.partitions[k].end_sector,
                        proposed.partitions[Len(proposed.partitions)].start_sector,
                        proposed.partitions[Len(proposed.partitions)].end_sector)

\* C15: resize_partition with a length under 10 MiB / sector_size fails
\* with ResizeTooSmall and leaves the disk unchanged, whatever follows the
\* partition and whether or not a record has the number.
C15_TooSmallAlways ==
    [][(/\ lastOp'.op = "resize_partition"
        /\ lastOp'.length < MinSectors(proposed.sector_size))
       => (result' = ResizeTooSmall /\ proposed' = proposed)]_vars

\* resize_partition refused a length under the threshold for a number that
\* no record has.
C15_Witness ==
    /\ IsResize
    /\ lastOp.length < MinSectors(proposed.sector_size)
    /\ Position(proposed.partitions, lastOp.partition) = 0
    /\ result = ResizeTooSmall

\* C16: remove_partition, format_partition, move_partition and
\* resize_partition with an accepted length return PartitionNotFound
\* carrying the number they were given when no record of the list has it.
C16_NotFound ==
    [][(/\ \/ lastOp'.op \in {"remove_partition", "format_partition", "move_partition"}
           \/ /\ lastOp'.op = "resize_partition"
              /\ lastOp'.length > MinSectors(proposed.sector_size)
        /\ TargetPos = 0)
       => result' = PartitionNotFound(lastOp'.partition)]_vars

\* format_partition was called with a number that no record has.
C16_Witness ==
    /\ lastOp.op = "format_partition"
    /\ Position(proposed.partitions, lastOp.partition) = 0
    /\ result = PartitionNotFound(lastOp.partition)

\* C17: move_partition(n, start) returns Ok and changes nothing when start
\* is the current start sector; otherwise, when it returns Ok, start_sector
\* is start, end_sector is shifted by the same distance (so the length is
\* kept) and nothing else changes.
C17_MoveKeepsLength ==
    [][(lastOp'.op = "move_partition" /\ TargetPos /= 0) =>
          LET p == proposed.partitions[TargetPos]
          IN  IF lastOp'.start = p.start_sector
              THEN result' = Ok /\ proposed' = proposed
              ELSE result' = Ok =>
                     /\ proposed' = [proposed EXCEPT
                           !.partitions[TargetPos].start_sector = lastOp'.start,
                           !.partitions[TargetPos].end_sector =
                               p.end_sector + (lastOp'.start - p.start_sector)]
                     /\ proposed'.partitions[TargetPos].end_sector
                           - proposed'.partitions[TargetPos].start_sector
                        = p.end_sector - p.start_sector]_vars

\* move_partition moved a source partition towards the start of the disk.
C17_Witness ==
    /\ lastOp.op = "move_partition"
    /\ result = Ok
    /\ \E k \in 1..Len(proposed.partitions), i \in 1..Len(original.partitions) :
          /\ flag_is_enabled(proposed.partitions[k], SOURCE)
          /\ proposed.partitions[k].number = lastOp.partition
          /\ original.partitions[i].number = lastOp.partition
          /\ proposed.partitions[k].start_sector = lastOp.start
          /\ lastOp.start < original.partitions[i].start_sector

\* The positions of the source records of proposed that are not set to be
\* removed.
KeptSources ==
    {k \in 1..Len(proposed.partitions) :
        /\ flag_is_enabled(proposed.partitions[k], SOURCE)
        /\ NotRemoved(proposed.partitions[k])}

\* The change descriptor diff emits for the proposed record p.
ChangeOf(p) ==
    [num    |-> p.number,
     start  |-> p.start_sector,
     end    |-> p.end_sector,
     format |-> IF flag_is_enabled(p, FORMAT) THEN p.filesystem ELSE None]

\* C18: every change descriptor of a plan carries the number, the start and
\* the end sector of a source record of proposed that is not set to be
\* removed, and Some(its filesystem) as format exactly when the record's
\* pending-format flag is set, None otherwise; a record whose flag is set
\* has a change descriptor even if its filesystem is the original's.
C18_ChangeDescriptors ==
    (lastOp = DiffOp /\ plan.kind = "Ok") =>
        /\ \A c \in 1..Len(plan.change_partitions) :
              \E k \in KeptSources :
                  plan.change_partitions[c] = ChangeOf(proposed.partitions[k])
        /\ \A k \in KeptSources :
              (/\ flag_is_enabled(proposed.partitions[k], FORMAT)
               /\ \E i \in 1..Len(original.partitions) :
                     original.partitions[i].number = proposed.partitions[k].number)
              => \E c \in 1..Len(plan.change_partitions) :
                    /\ plan.change_partitions[c] = ChangeOf(proposed.partitions[k])
                    /\ plan.change_partitions[c].format = proposed.partitions[k].filesystem

\* diff returned a plan with a change that requests no format (a move) and a
\* change that formats a partition with the filesystem it had.
C18_Witness ==
    /\ lastOp = DiffOp
    /\ plan.kind = "Ok"
    /\ \E c \in 1..Len(plan.change_partitions) : plan.change_partitions[c].format = None
    /\ \E c \in 1..Len(plan.change_partitions), i \in 1..Len(original.partitions) :
          /\ original.partitions[i].number = plan.change_partitions[c].num
          /\ plan.change_partitions[c].format /= None
          /\ plan.change_partitions[c].format = original.partitions[i].filesystem

\* The create descriptors of the records of a list that are not source
\* records, in list order.
RECURSIVE CreatesOf(_)
CreatesOf(parts) ==
    IF parts = <<>> THEN <<>>
    ELSE IF flag_is_enabled(Head(parts), SOURCE) THEN CreatesOf(Tail(parts))
    ELSE << [start_sector |-> Head(parts).start_sector,
             end_sector   |-> Head(parts).end_sector,
             file_system  |-> Head(parts).filesystem[1]] >> \o CreatesOf(Tail(parts))

\* C19: the create list of the plan holds one descriptor for each non-source
\* record of proposed, with its start_sector, end_sector and filesystem, and
\* none for a source record.
C19_CreatesAreTheNewRecords ==
    lastOp = DiffOp =>
        /\ plan.kind = "Ok"
        /\ plan.create_partitions = CreatesOf(proposed.partitions)

\* diff ran on a disk with source records and two added records.
C19_Witness ==
    /\ lastOp = DiffOp
    /\ Len(plan.create_partitions) = 2
    /\ Len(original.partitions) > 0

\* The rearrangements of a list.
Reorderings(parts) ==
    {[i \in 1..Len(parts) |-> parts[f[i]]] :
        f \in {g \in [1..Len(parts) -> 1..Len(parts)] :
                  \A i, j \in 1..Len(parts) : i /= j => g[i] /= g[j]}}

Elements(seq) == {seq[i] : i \in 1..Len(seq)}

\* C20: when proposed holds a source-flagged counterpart for every source
\* partition of original, diff returns a plan, and the plan has the same
\* removals, changes and creations whatever the order of the records of
\* proposed; no order makes it fail with LayoutChanged or an assertion.
\* (Stated for lists whose source-flagged records all come from original.)
C20_OrderIndependent ==
    (/\ lastOp = DiffOp
     /\ ~SourceMissing
     /\ \A k \in 1..Len(proposed.partitions) :
           flag_is_enabled(proposed.partitions[k], SOURCE) =>
               \E i \in 1..Len(original.partitions) :
                   original.partitions[i].number = proposed.partitions[k].number) =>
        /\ plan.kind = "Ok"
        /\ \A q \in Reorderings(proposed.partitions) :
              LET other == diff(original, [proposed EXCEPT !.partitions = q])
              IN  /\ other.kind = "Ok"
                  /\ Elements(other.remove_partitions) = Elements(plan.remove_partitions)
                  /\ Elements(other.change_partitions) = Elements(plan.change_partitions)
                  /\ Elements(other.create_partitions) = Elements(plan.create_partitions)

(***************************************************************************)
(* Order of the plan's lists.                                              *)
(***************************************************************************)
\* The records of parts that are (source = TRUE) or are not source-flagged,
\* in list order.
RECURSIVE Select(_, _)
Select(parts, source) ==
    IF parts = <<>> THEN <<>>
    ELSE IF flag_is_enabled(Head(parts), SOURCE) = source
    THEN <<Head(parts)>> \o Select(Tail(parts), source)
    ELSE Select(Tail(parts), source)

\* C21: the remove numbers and the change descriptors of a plan each come
\* in the order of their partitions in original's list, and the create
\* descriptors come in the order of the non-source records of proposed.
C21_PlanInScanOrder ==
    (lastOp = DiffOp /\ plan.kind = "Ok") =>
        /\ \A a, b \in 1..Len(plan.remove_partitions) :
              a < b => Position(original.partitions, plan.remove_partitions[a])
                          < Position(original.partitions, plan.remove_partitions[b])
        /\ \A a, b \in 1..Len(plan.change_partitions) :
              a < b => Position(original.partitions, plan.change_partitions[a].num)
                          < Position(original.partitions, plan.change_partitions[b].num)
        /\ LET added == Select(proposed.partitions, FALSE)
           IN  /\ Len(plan.create_partitions) = Len(added)
               /\ \A c \in 1..Len(added) :
                     /\ plan.create_partitions[c].start_sector = added[c].start_sector
                     /\ plan.create_partitions[c].end_sector = added[c].end_sector

\* Two changes and two creations with different sectors in one plan.
C21_Witness ==
    /\ lastOp = DiffOp
    /\ plan.kind = "Ok"
    /\ Len(plan.change_partitions) = 2
    /\ Len(plan.create_partitions) = 2
    /\ plan.create_partitions[1] /= plan.create_partitions[2]

\* Two removals in one plan.
C21_WitnessRemovals == lastOp = DiffOp /\ Len(plan.remove_partitions) = 2

\* C22: in a session on a disk whose records are all source-flagged, diff
\* returns a plan or LayoutChanged: it reaches neither of its
\* unreachable!("layout validation") assertions, does not unwrap an absent
\* filesystem of a created partition and does not spin on the exhausted
\* iterator.
C22_DiffNeverAborts ==
    lastOp = DiffOp => plan.kind \in {"Ok", "LayoutChanged"}

\* A diff of a disk with a removed source partition and an added partition.
C22_Witness ==
    /\ lastOp = DiffOp
    /\ plan.kind = "Ok"
    /\ Len(plan.remove_partitions) > 0
    /\ Len(plan.create_partitions) > 0

(***************************************************************************)
(* get_partition_at.                                                       *)
(***************************************************************************)
\* The positions of the records not flagged for removal whose inclusive
\* range holds the sector.
Holding(parts, sector) ==
    {i \in 1..Len(parts) :
        /\ NotRemoved(parts[i])
        /\ parts[i].start_sector <= sector
        /\ sector <= parts[i].end_sector}

\* C23: get_partition_at returns the number of the first record in list
\* order that is not flagged for removal and holds the sector, none when
\* there is no such record.
C23_FirstHolder ==
    lastOp.op = "get_partition_at" =>
        LET H == Holding(proposed.partitions, lastOp.start)
        IN  IF H = {} THEN result.kind = "None"
            ELSE /\ result.kind = "Some"
                 /\ result.id = proposed.partitions[First(H)].number

\* The sector is the end sector of the record returned, which comes after a
\* record flagged for removal that holds the sector too.
C23_Witness ==
    /\ lastOp.op = "get_partition_at"
    /\ result.kind = "Some"
    /\ \E i, k \in 1..Len(proposed.partitions) :
          /\ i < k
          /\ flag_is_enabled(proposed.partitions[i], REMOVE)
          /\ proposed.partitions[i].start_sector <= lastOp.start
          /\ lastOp.start <= proposed.partitions[i].end_sector
          /\ proposed.partitions[k].number = result.id
          /\ proposed.partitions[k].end_sector = lastOp.start

(***************************************************************************)
(* requires_changes.                                                       *)
(***************************************************************************)
Differs(a, b) ==
    \/ a.start_sector /= b.start_sector
    \/ a.end_sector /= b.end_sector
    \/ a.filesystem /= b.filesystem
    \/ a.flags /= b.flags
    \/ flag_is_enabled(b, FORMAT)

\* C24: a source partition whose counterpart is not removed has a change
\* descriptor in the plan exactly when the counterpart differs in its
\* sector bounds, its filesystem or its partition-table flags or is pending
\* format; otherwise the plan has no entry for it at all.
C24_ChangeIffDiffers ==
    (lastOp = DiffOp /\ plan.kind = "Ok") =>
        \A i \in 1..Len(original.partitions), k \in KeptSources :
            original.partitions[i].number = proposed.partitions[k].number =>
                /\ (\E c \in 1..Len(plan.change_partitions) :
                       plan.change_partitions[c].num = original.partitions[i].number)
                   <=> Differs(original.partitions[i], proposed.partitions[k])
                /\ \A r \in 1..Len(plan.remove_partitions) :
                       plan.remove_partitions[r] /= original.partitions[i].number

\* One plan with a change for a partition that differs in its flags only,
\* a change for one that differs in its filesystem only, and no entry for a
\* third, which is the same.
C24_Witness ==
    /\ lastOp = DiffOp
    /\ plan.kind = "Ok"
    /\ Len(plan.change_partitions) = 2
    /\ Len(plan.remove_partitions) = 0
    /\ Len(original.partitions) = 3
    /\ \A k \in 1..Len(proposed.partitions) :
          /\ proposed.partitions[k].start_sector = original.partitions[k].start_sector
          /\ proposed.partitions[k].end_sector = original.partitions[k].end_sector
          /\ ~flag_is_enabled(proposed.partitions[k], FORMAT)

(***************************************************************************)
(* Invariants of the proposed disk in a session.                           *)
(***************************************************************************)
\* C25: after any sequence of add_partition, resize_partition and
\* move_partition calls every partition that is not flagged for removal
\* ends at or before the size of the disk.
C25_WithinDisk ==
    \A k \in 1..Len(proposed.partitions) :
        NotRemoved(proposed.partitions[k]) =>
            proposed.partitions[k].end_sector <= proposed.size

\* C26: no two records of the partition list carry the same number, the
\* records appended by add_partition included.
C26_UniqueNumbers ==
    \A i, k \in 1..Len(proposed.partitions) :
        i /= k => proposed.partitions[i].number /= proposed.partitions[k].number

\* C27: a record flagged for removal is source-flagged.
C27_RemovedIsSource ==
    \A k \in 1..Len(proposed.partitions) :
        flag_is_enabled(proposed.partitions[k], REMOVE) =>
            flag_is_enabled(proposed.partitions[k], SOURCE)

\* remove_partition returned Ok for a record that is not source-flagged and
\* is still the first of the list, next to none.
C27_Witness ==
    /\ lastOp.op = "remove_partition"
    /\ result = Ok
    /\ Len(proposed.partitions) > 0
    /\ proposed.partitions[1].number = lastOp.partition
    /\ ~flag_is_enabled(proposed.partitions[1], SOURCE)

NumbersOf(parts) == [k \in 1..Len(parts) |-> parts[k].number]

\* C28: the source-flagged records of proposed have the numbers of the
\* source-flagged records of original, in the same order, and diff does not
\* fail with LayoutChanged.
C28_SourcesStay ==
    /\ NumbersOf(Select(proposed.partitions, TRUE))
          = NumbersOf(Select(original.partitions, TRUE))
    /\ lastOp = DiffOp => plan.kind /= "LayoutChanged"

\* A diff after a source partition was flagged for removal, another was
\* formatted and a record was added.
C28_Witness ==
    /\ lastOp = DiffOp
    /\ plan.kind = "Ok"
    /\ \E k \in 1..Len(proposed.partitions) :
          flag_is_enabled(proposed.partitions[k], REMOVE)
    /\ \E k \in 1..Len(proposed.partitions) :
          /\ flag_is_enabled(proposed.partitions[k], SOURCE)
          /\ flag_is_enabled(proposed.partitions[k], FORMAT)
    /\ Select(proposed.partitions, FALSE) /= <<>>

\* C29: every record has end_sector >= start_sector after any sequence of
\* resize_partition, move_partition and shrink_to calls, failed ones
\* included, and no call subtracts below zero.
C29_EndNotBeforeStart ==
    /\ \A k \in 1..Len(proposed.partitions) :
          proposed.partitions[k].end_sector >= proposed.partitions[k].start_sector
    /\ result.kind /= "Underflow"

\* shrink_to took a record down to one sector.
C29_Witness ==
    /\ lastOp.op = "shrink_to"
    /\ result = Ok
    /\ \E k \in 1..Len(proposed.partitions) :
          /\ proposed.partitions[k].number = lastOp.partition
          /\ proposed.partitions[k].end_sector = proposed.partitions[k].start_sector

(***************************************************************************)
(* Frame of the calls.                                                     *)
(***************************************************************************)
\* C30: a successful resize changes the end sector of its target only, a
\* move its start and end, a format its filesystem and its pending-format
\* flag, a remove its pending-remove flag or, for a record that is not
\* source-flagged, its presence; an add appends one record; nothing else of
\* the disk changes, and diff changes neither disk.  No call changes the
\* original.
C30_Frame ==
    [][/\ original' = original
       /\ lastOp' = DiffOp => proposed' = proposed
       /\ (result' = Ok /\ TargetPos /= 0) =>
             LET p == proposed.partitions[TargetPos]
             IN  /\ lastOp'.op = "resize_partition" =>
                       proposed' = [proposed EXCEPT !.partitions[TargetPos] =
                                      [p EXCEPT !.end_sector = p.start_sector + lastOp'.length]]
                 /\ lastOp'.op = "move_partition" =>
                       \E start, end \in {p.start_sector, p.end_sector,
                                          proposed'.partitions[TargetPos].start_sector,
                                          proposed'.partitions[TargetPos].end_sector} :
                           proposed' = [proposed EXCEPT !.partitions[TargetPos] =
                                          [p EXCEPT !.start_sector = start,
                                                    !.end_sector = end]]
                 /\ lastOp'.op = "format_partition" =>
                       proposed' = [proposed EXCEPT !.partitions[TargetPos] =
                                      [p EXCEPT !.filesystem = Some(lastOp'.fs),
                                                !.bitflags = BitOr(p.bitflags, FORMAT)]]
                 /\ lastOp'.op = "remove_partition" =>
                       IF flag_is_enabled(p, SOURCE)
                       THEN proposed' = [proposed EXCEPT !.partitions[TargetPos] =
                                           [p EXCEPT !.bitflags = BitOr(p.bitflags, REMOVE)]]
                       ELSE \/ proposed' = proposed
                            \/ proposed' = [proposed EXCEPT !.partitions =
                                              RemoveAt(proposed.partitions, TargetPos)]
       /\ (result' = Ok /\ lastOp'.op = "add_partition") =>
             /\ Len(proposed'.partitions) = Len(proposed.partitions) + 1
             /\ proposed' = [proposed EXCEPT !.partitions =
                               Append(proposed.partitions,
                                      proposed'.partitions[Len(proposed'.partitions)])]
      ]_vars

\* format_partition returned Ok on a disk with a second partition, which
\* carries partition-table flags.
C30_Witness ==
    /\ lastOp.op = "format_partition"
    /\ result = Ok
    /\ Len(proposed.partitions) >= 2
    /\ \E k \in 1..Len(proposed.partitions) :
          /\ proposed.partitions[k].number = lastOp.partition
          /\ proposed.partitions[k].flags /= <<>>
          /\ proposed.partitions[k].filesystem = Some(lastOp.fs)

(***************************************************************************)
(* move_partition and resize_partition: what they reject.                  *)
(***************************************************************************)
\* Some record of the disk other than the one at pos, not flagged for
\* removal, intersects start..end.
OtherIntersected(disk, pos, start, end) ==
    \E k \in 1..Len(disk.partitions) :
        /\ k /= pos
        /\ NotRemoved(disk.partitions[k])
        /\ Intersects(start, end, disk.partitions[k].start_sector,
                      disk.partitions[k].end_sector)

\* C31: a move of a partition not flagged for removal whose new range
\* intersects no other such partition succeeds, its own current range
\* notwithstanding, and SectorOverlaps never carries the number of the
\* partition moved.
C31_MoveIgnoresItself ==
    [][(lastOp'.op = "move_partition" /\ TargetPos /= 0) =>
          LET p   == proposed.partitions[TargetPos]
              end == p.end_sector + (lastOp'.start - p.start_sector)
          IN  /\ (/\ NotRemoved(p)
                  /\ ~OtherIntersected(proposed, TargetPos, lastOp'.start, end))
                 => result' = Ok
              /\ result'.kind = "SectorOverlaps" => result'.id /= lastOp'.partition]_vars

\* C32: resize_partition does not return TooSmall for a length of
\* 10 MiB worth of sectors or more.
C32_MinimumIsAccepted ==
    [][(/\ lastOp'.op = "resize_partition"
        /\ lastOp'.length >= (10 * 1024 * 1024) \div proposed.sector_size)
       => result'.kind /= "ResizeTooSmall"]_vars

C34_PlanNumbers ==
    (lastOp = DiffOp /\ plan.kind = "Ok") =>
        /\ \A a, b \in 1..Len(plan.remove_partitions) :
              a /= b => plan.remove_partitions[a] /= plan.remove_partitions[b]
        /\ \A a, b \in 1..Len(plan.change_partitions) :
              a /= b => plan.change_partitions[a].num /= plan.change_partitions[b].num
        /\ \A r \in 1..Len(plan.remove_partitions), c \in 1..Len(plan.change_partitions) :
              plan.remove_partitions[r] /= plan.change_partitions[c].num
        /\ \A r \in 1..Len(plan.remove_partitions) :
              plan.remove_partitions[r] \in Elements(SourceNumbers(original.partitions))
        /\ \A c \in 1..Len(plan.change_partitions) :
              plan.change_partitions[c].num \in Elements(SourceNumbers(original.partitions))

\* A plan with a removal and a change, of a disk on which a partition was
\* resized or formatted before another was removed.
C34_Witness ==
    /\ lastOp = DiffOp
    /\ plan.kind = "Ok"
    /\ Len(plan.remove_partitions) = 1
    /\ Len(plan.change_partitions) = 1
    /\ Len(proposed.partitions) > Len(original.partitions)

(***************************************************************************)
(* Lengths.                                                                *)
(***************************************************************************)
\* C35: after resize_partition(n, L) returns Ok, sectors() of partition n,
\* its end sector less its start sector, is L and its start sector is what
\* it was.
C35_ResizeGivesLength ==
    [][(lastOp'.op = "resize_partition" /\ result' = Ok /\ TargetPos /= 0) =>
          /\ PartitionInfo_sectors(proposed'.partitions[TargetPos]) = lastOp'.length
          /\ proposed'.partitions[TargetPos].start_sector
                = proposed.partitions[TargetPos].start_sector]_vars

\* resize_partition returned Ok and made the partition longer than it was
\* on the original disk.
C35_Witness ==
    /\ lastOp.op = "resize_partition"
    /\ result = Ok
    /\ \E k \in 1..Len(proposed.partitions), i \in 1..Len(original.partitions) :
          /\ proposed.partitions[k].number = lastOp.partition
          /\ original.partitions[i].number = lastOp.partition
          /\ PartitionInfo_sectors(proposed.partitions[k]) = lastOp.length
          /\ PartitionInfo_sectors(proposed.partitions[k]) > PartitionInfo_sectors(original.partitions[i])

\* C36: shrink_to(sectors) fails with ShrinkValueTooHigh and leaves the
\* record as it is when sectors exceeds end_sector - start_sector; otherwise
\* it takes sectors off end_sector and changes nothing else, whatever the
\* length left.
C36_ShrinkTo ==
    [][(lastOp'.op = "shrink_to" /\ TargetPos /= 0) =>
          LET p == proposed.partitions[TargetPos]
          IN  IF lastOp'.length > p.end_sector - p.start_sector
              THEN result' = ShrinkValueTooHigh /\ proposed' = proposed
              ELSE /\ result' = Ok
                   /\ proposed' = [proposed EXCEPT !.partitions[TargetPos].end_sector =
                                      p.end_sector - lastOp'.length]]_vars

\* shrink_to returned Ok and left a partition of less than 10 MiB.
C36_Witness ==
    /\ lastOp.op = "shrink_to"
    /\ result = Ok
    /\ \E k \in 1..Len(proposed.partitions) :
          /\ proposed.partitions[k].number = lastOp.partition
          /\ PartitionInfo_sectors(proposed.partitions[k]) < MinSectors(proposed.sector_size)

(***************************************************************************)
(* SpecPart: the flag methods of PartitionInfo, called in any order on one *)
(* record with any combination of its flags.  part holds the record and    *)
(* the last call.                                                          *)
(***************************************************************************)
Flags == {SOURCE, REMOVE, FORMAT, ACTIVE, BUSY, SWAPPED}

Names == {None, Some("root")}

PartCall(info, op, flag, fs) == [info |-> info, op |-> op, flag |-> flag, fs |-> fs]

InitPart ==
    /\ part \in {PartCall([bitflags |-> b, filesystem |-> f, name |-> n], "new", 0, "") :
                    b \in 0..63, f \in {None, Some("Ext4")}, n \in Names}
    /\ original = EmptyDisk
    /\ proposed = EmptyDisk
    /\ lastOp = NewOp
    /\ result = Ok
    /\ plan = NoPlan
    /\ script = OffScript
    /\ budget = 0
    /\ watcher = Unused
    /\ resolver = Unused

PartStep(info, op, flag, fs) ==
    /\ part' = PartCall(info, op, flag, fs)
    /\ UNCHANGED <<original, proposed, lastOp, result, plan, script, budget,
                   watcher, resolver>>

PartRemove == PartStep(remove(part.info), "remove", 0, "")

PartFormatWith ==
    \E fs \in FileSystems : PartStep(format_with(part.info, fs), "format_with", 0, fs)

PartFormatAndKeepName ==
    \E fs \in FileSystems :
        PartStep(format_and_keep_name(part.info, fs), "format_and_keep_name", 0, fs)

PartFlagDisable ==
    \E flag \in Flags : PartStep(flag_disable(part.info, flag), "flag_disable", flag, "")

NextPart ==
    \/ PartRemove
    \/ PartFormatWith
    \/ PartFormatAndKeepName
    \/ PartFlagDisable

SpecPart == InitPart /\ [][NextPart]_vars

\* Every flag other than the given one is after the call what it was.
OtherFlagsKept(flag) ==
    \A f \in Flags \ {flag} :
        flag_is_enabled(part'.info, f) = flag_is_enabled(part.info, f)

\* C37: remove sets the remove flag, format_with and format_and_keep_name
\* set the format flag, flag_disable clears the flag it names, and each
\* leaves every other flag as it was; format_with clears the name,
\* format_and_keep_name keeps it, and the filesystem changes in the two
\* format calls only.
C37_FlagsIndependent ==
    [][/\ part'.op = "remove" =>
             /\ flag_is_enabled(part'.info, REMOVE)
             /\ OtherFlagsKept(REMOVE)
             /\ part'.info.name = part.info.name
             /\ part'.info.filesystem = part.info.filesystem
       /\ part'.op = "format_with" =>
             /\ flag_is_enabled(part'.info, FORMAT)
             /\ OtherFlagsKept(FORMAT)
             /\ part'.info.name = None
             /\ part'.info.filesystem = Some(part'.fs)
       /\ part'.op = "format_and_keep_name" =>
             /\ flag_is_enabled(part'.info, FORMAT)
             /\ OtherFlagsKept(FORMAT)
             /\ part'.info.name = part.info.name
             /\ part'.info.filesystem = Some(part'.fs)
       /\ part'.op = "flag_disable" =>
             /\ ~flag_is_enabled(part'.info, part'.flag)
             /\ OtherFlagsKept(part'.flag)
             /\ part'.info.name = part.info.name
             /\ part'.info.filesystem = part.info.filesystem
       /\ part'.info.bitflags \in 0..255]_vars

\* flag_disable cleared the format flag of a named record that is source,
\* set to be removed, active, busy and swapped, and was formatted.
C37_Witness ==
    /\ part.op = "flag_disable"
    /\ part.flag = FORMAT
    /\ part.info.bitflags = 63 - FORMAT
    /\ part.info.filesystem = Some("Xfs")
    /\ part.info.name /= None

(***************************************************************************)
(* SpecWatch: the thread watch_and_set spawns, with the file it polls, the *)
(* RwLock it writes through and the other users of the file and the lock.  *)
(* watcher holds                                                           *)
(*   pc            where the thread is                                     *)
(*   mtime         the modification time of the file                       *)
(*   modified      the thread's `modified`                                 *)
(*   new_modified  the time the last successful get_modified in the loop   *)
(*                 returned                                                *)
(*   lock          "free", "write" (held by the thread) or "read" (held by *)
(*                 a reader elsewhere)                                     *)
(*   poisoned      whether a writer elsewhere panicked holding the lock    *)
(*   swaps         the value behind the lock: the time of the file as      *)
(*                 create_new read it, NoTime for the caller's value       *)
(*   new_swaps     what create_new returned                                *)
(*   refreshes     the new_modified of every call of create_new so far     *)
(***************************************************************************)
MaxModifications == 3

\* io::Result<SystemTime>: Err is None, Ok(t) is Some(t).
Err == None

\* The time the thread holds before its first get_modified.
NoTime == -1

WatcherNew ==
    [pc |-> "start", mtime |-> 0, modified |-> NoTime, new_modified |-> NoTime,
     lock |-> "free", poisoned |-> FALSE, swaps |-> NoTime, new_swaps |-> None,
     refreshes |-> <<>>]

\* let mut modified = get_modified(file).expect(..)
watch_start(w, got) ==
    IF got = Err THEN [w EXCEPT !.pc = "panicked"]
    ELSE [w EXCEPT !.modified = got[1], !.pc = "sleep"]

\* The comparison without the assignment `modified = new_modified`.
watch_compare_NoRecord(w, got) ==
    IF got = Err THEN [w EXCEPT !.pc = "sleep"]
    ELSE IF got[1] /= w.modified
    THEN [w EXCEPT !.new_modified = got[1], !.pc = "write"]
    ELSE [w EXCEPT !.new_modified = got[1], !.pc = "sleep"]

\* if let Ok(new_modified) = get_modified(file) { if new_modified != modified
\* { modified = new_modified; ...
watch_compare(w, got) ==
    IF got = Err THEN [w EXCEPT !.pc = "sleep"]
    ELSE IF got[1] /= w.modified
    THEN [w EXCEPT !.new_modified = got[1], !.modified = got[1], !.pc = "write"]
    ELSE [w EXCEPT !.new_modified = got[1], !.pc = "sleep"]

\* swaps.write(), once the lock is free: Err when the lock is poisoned.
watch_write(w) ==
    IF w.poisoned THEN [w EXCEPT !.pc = "sleep"]
    ELSE [w EXCEPT !.lock = "write", !.pc = "create_new"]

\* if let Some(new_swaps) = create_new()
watch_create_new(w, created) ==
    [w EXCEPT !.new_swaps = created,
              !.refreshes = Append(w.refreshes, w.new_modified),
              !.pc = IF created = None THEN "drop" ELSE "assign"]

\* **swaps = new_swaps
watch_assign(w) == [w EXCEPT !.swaps = w.new_swaps[1], !.pc = "drop"]

\* The write guard goes out of scope.
watch_drop(w) == [w EXCEPT !.lock = "free", !.new_swaps = None, !.pc = "sleep"]

WatchStep(w) ==
    /\ watcher' = w
    /\ UNCHANGED <<original, proposed, lastOp, result, plan, script, budget,
                   part, resolver>>

InitWatch ==
    /\ watcher = WatcherNew
    /\ original = EmptyDisk
    /\ proposed = EmptyDisk
    /\ lastOp = NewOp
    /\ result = Ok
    /\ plan = NoPlan
    /\ script = OffScript
    /\ budget = 0
    /\ part = Unused
    /\ resolver = Unused

\* get_modified: the time of the file, or an error.
GetModified == {Err, Some(watcher.mtime)}

WatchStart ==
    /\ watcher.pc = "start"
    /\ \E got \in GetModified : WatchStep(watch_start(watcher, got))

\* thread::sleep(Duration::from_secs(3))
WatchSleep ==
    /\ watcher.pc = "sleep"
    /\ WatchStep([watcher EXCEPT !.pc = "get_modified"])

WatchCompare ==
    /\ watcher.pc = "get_modified"
    /\ \E got \in GetModified : WatchStep(watch_compare(watcher, got))

WatchWrite ==
    /\ watcher.pc = "write"
    /\ watcher.lock = "free"
    /\ WatchStep(watch_write(watcher))

\* create_new reads the file as it is now, or fails; the calls are capped
\* at one more than the file's modifications.
WatchCreateNew ==
    /\ watcher.pc = "create_new"
    /\ Len(watcher.refreshes) <= MaxModifications
    /\ \E created \in {None, Some(watcher.mtime)} :
           WatchStep(watch_create_new(watcher, created))

WatchAssign ==
    /\ watcher.pc = "assign"
    /\ WatchStep(watch_assign(watcher))

WatchDrop ==
    /\ watcher.pc = "drop"
    /\ WatchStep(watch_drop(watcher))

\* The file is written by someone.
FileModified ==
    /\ watcher.mtime < MaxModifications
    /\ WatchStep([watcher EXCEPT !.mtime = watcher.mtime + 1])

\* Another thread takes and gives back the lock for reading.
ReaderLocks ==
    /\ watcher.lock = "free"
    /\ WatchStep([watcher EXCEPT !.lock = "read"])

ReaderUnlocks ==
    /\ watcher.lock = "read"
    /\ WatchStep([watcher EXCEPT !.lock = "free"])

\* Another writer panicked while it held the lock.
WriterPanicked ==
    /\ watcher.lock = "free"
    /\ ~watcher.poisoned
    /\ WatchStep([watcher EXCEPT !.poisoned = TRUE])

NextWatch ==
    \/ WatchStart
    \/ WatchSleep
    \/ WatchCompare
    \/ WatchWrite
    \/ WatchCreateNew
    \/ WatchAssign
    \/ WatchDrop
    \/ FileModified
    \/ ReaderLocks
    \/ ReaderUnlocks
    \/ WriterPanicked

SpecWatch == InitWatch /\ [][NextWatch]_vars

\* C38: the thread replaces the value only while it holds the write lock,
\* only when create_new returned a value and only after it saw a
\* modification time different from the one it had recorded; it has
\* recorded the new time by the time it refreshes, and create_new is called
\* at most once for each time observed, whether or not it returned a value.
C38_WatchAndSet ==
    /\ [](/\ watcher.pc \in {"write", "create_new", "assign", "drop"}
              => watcher.modified = watcher.new_modified
          /\ watcher.pc \in {"create_new", "assign", "drop"} => watcher.lock = "write"
          /\ \A a, b \in 1..Len(watcher.refreshes) :
                a /= b => watcher.refreshes[a] /= watcher.refreshes[b])
    /\ [][watcher'.swaps /= watcher.swaps =>
            /\ watcher.lock = "write"
            /\ watcher'.lock = "write"
            /\ watcher.new_swaps /= None
            /\ watcher'.swaps = watcher.new_swaps[1]
            /\ watcher.refreshes /= <<>>
            /\ watcher.refreshes[Len(watcher.refreshes)] = watcher.modified]_vars

\* The thread is back at its sleep after a create_new that returned nothing
\* and one that returned a value, and the file has changed since.
C38_Witness ==
    /\ watcher.pc = "sleep"
    /\ Len(watcher.refreshes) = 2
    /\ watcher.swaps = 1
    /\ watcher.mtime = 3
    /\ watcher.modified = 2

(***************************************************************************)
(* SpecResolve: one call of resolve_to_physical.  resolver holds            *)
(*   slaves      for every device, the entries of its                      *)
(*               /sys/class/block/<name>/slaves/ directory as Some(set),   *)
(*               NoDir when it has none (directories are taken to be       *)
(*               readable)                                                 *)
(*   name        the argument of the call                                  *)
(*   physical    the loop's `physical`                                     *)
(*   iterations  the number of times the loop body has run                 *)
(*   pc          "loop" or "done"                                          *)
(***************************************************************************)
Devices == {"dm-1", "dm-0", "sda"}

MaxSlaves == 2

\* The loop is cut after MaxIterations runs of its body.
MaxIterations == 5

NoDir == None

\* The entries of the slaves directory of a device that has one.
Entries(slaves, name) == slaves[name][1]

\* PathBuf::from(["/dev/", name].concat()) and Path::file_name
DevPath(name) == <<"/dev/", name>>

file_name(path) == path[2]

\* resolve_slave taking a slave also when there are several.
resolve_slave_AnySlave(slaves, name) ==
    IF slaves[name] = NoDir THEN Some(DevPath(name))
    ELSE IF Cardinality(Entries(slaves, name)) >= 1
    THEN Some(DevPath(CHOOSE d \in Entries(slaves, name) : TRUE))
    ELSE None

resolve_slave(slaves, name) ==
    IF slaves[name] = NoDir THEN Some(DevPath(name))
    ELSE IF Cardinality(Entries(slaves, name)) = 1
    THEN Some(DevPath(CHOOSE d \in Entries(slaves, name) : TRUE))
    ELSE None

\* The slave the loop body resolves: of name at first, then of physical.
Resolved(r) ==
    resolve_slave(r.slaves, IF r.physical = None THEN r.name
                            ELSE file_name(r.physical[1]))

\* if physical.as_ref().map_or(true, |rec| rec != &slave)
Continues(r) ==
    /\ Resolved(r) /= None
    /\ (IF r.physical = None THEN TRUE ELSE r.physical[1] /= Resolved(r)[1])

InitResolve ==
    /\ resolver \in {[slaves |-> s, name |-> n, physical |-> None,
                      iterations |-> 0, pc |-> "loop"] :
                        s \in [Devices -> {NoDir} \cup {Some(e) : e \in
                                            {x \in SUBSET Devices :
                                                Cardinality(x) <= MaxSlaves}}],
                        n \in Devices}
    /\ original = EmptyDisk
    /\ proposed = EmptyDisk
    /\ lastOp = NewOp
    /\ result = Ok
    /\ plan = NoPlan
    /\ script = OffScript
    /\ budget = 0
    /\ part = Unused
    /\ watcher = Unused

ResolveStep(r) ==
    /\ resolver.pc = "loop"
    /\ resolver.iterations < MaxIterations
    /\ resolver' = [r EXCEPT !.iterations = resolver.iterations + 1]
    /\ UNCHANGED <<original, proposed, lastOp, result, plan, script, budget,
                   part, watcher>>

\* physical = Some(slave); continue
ResolveContinue ==
    /\ Continues(resolver)
    /\ ResolveStep([resolver EXCEPT !.physical = Resolved(resolver)])

\* break
ResolveBreak ==
    /\ ~Continues(resolver)
    /\ ResolveStep([resolver EXCEPT !.pc = "done"])

NextResolve ==
    \/ ResolveContinue
    \/ ResolveBreak

\* The call runs on: nothing suspends the loop.
SpecResolve == InitResolve /\ [][NextResolve]_vars /\ WF_vars(NextResolve)

\* d is reached from c along the slaves directories in at most n steps,
\* one at least.
RECURSIVE Reaches(_, _, _, _)
Reaches(slaves, c, d, n) ==
    /\ n > 0
    /\ slaves[c] /= NoDir
    /\ \E e \in Entries(slaves, c) : e = d \/ Reaches(slaves, e, d, n - 1)

Acyclic(slaves) ==
    \A d \in Devices : ~Reaches(slaves, d, d, Cardinality(Devices))

OneSlave(slaves, d) == slaves[d] /= NoDir /\ Cardinality(Entries(slaves, d)) = 1

\* The chain of single-slave devices from d, at most n steps long: the
\* devices in order, the last being the first without exactly one slave.
RECURSIVE Chain(_, _, _)
Chain(slaves, d, n) ==
    IF n = 0 \/ ~OneSlave(slaves, d) THEN <<d>>
    ELSE <<d>> \o Chain(slaves, CHOOSE e \in Entries(slaves, d) : TRUE, n - 1)

ChainOf(r) == Chain(r.slaves, r.name, Cardinality(Devices))

\* C39 as stated: on an acyclic relation the call returns the first device
\* of the chain that has no slaves directory, or the device reached just
\* before one with zero or several slaves, and none only when the device
\* it starts from has a slaves directory without exactly one entry.
C39_DeviceBeforeTheEnd ==
    (resolver.pc = "done" /\ Acyclic(resolver.slaves)) =>
        LET chain == ChainOf(resolver)
            last  == chain[Len(chain)]
        IN  /\ resolver.physical = None =>
                  /\ resolver.slaves[resolver.name] /= NoDir
                  /\ Cardinality(Entries(resolver.slaves, resolver.name)) /= 1
            /\ resolver.slaves[last] = NoDir =>
                  resolver.physical = Some(DevPath(last))
            /\ (resolver.slaves[last] /= NoDir /\ Len(chain) > 1) =>
                  resolver.physical = Some(DevPath(chain[Len(chain) - 1]))

\* C39, amended: on an acyclic relation the call ends, and it returns the
\* first device of the chain that does not have exactly one slave, be it
\* for want of a slaves directory or for zero or several entries in it;
\* it returns none when, and only when, that device is the one it starts
\* from and has a slaves directory.
C39_EndOfTheChain ==
    /\ [](resolver.pc = "done" /\ Acyclic(resolver.slaves) =>
             LET chain == ChainOf(resolver)
                 last  == chain[Len(chain)]
             IN  IF Len(chain) = 1 /\ resolver.slaves[last] /= NoDir
                 THEN resolver.physical = None
                 ELSE resolver.physical = Some(DevPath(last)))
    /\ (Acyclic(resolver.slaves) ~> resolver.pc = "done")
    /\ [](Acyclic(resolver.slaves) => resolver.iterations <= Cardinality(Devices) + 1)

\* The call went down a chain of three devices and returned the third,
\* which has two slaves.
C39_Witness ==
    /\ resolver.pc = "done"
    /\ Acyclic(resolver.slaves)
    /\ Len(ChainOf(resolver)) = 3
    /\ resolver.physical = Some(DevPath(ChainOf(resolver)[3]))
    /\ resolver.slaves[ChainOf(resolver)[3]] = Some({})

====
